---- MODULE Spec2Model ----
(***************************************************************************)
(* Ledger core of SecureBankingSystem (src/database.py): the users and     *)
(* transactions tables, the handlers of BankingDatabase, and the way the   *)
(* handlers' SQL statements interleave when several connections run them   *)
(* at once.                                                                *)
(*                                                                         *)
(* Spec        - one caller: every handler runs from call to return.      *)
(* SpecConc    - several connections: every handler is split at its SQL   *)
(*               statements; sqlite's file lock decides who may write.     *)
(* SpecFair    - SpecConc on a store with two accounts, every running      *)
(*               handler being served (weak fairness).                     *)
(* SpecHistory - one caller on one existing account: deposits,             *)
(*               withdrawals and the transaction history.                  *)
(* SpecApp     - the pages of src/app.py: one browser session whose       *)
(*               buttons call the handlers.                                *)
(*                                                                         *)
(* Money is modelled by integers, account numbers by the integers their    *)
(* decimal text denotes, CURRENT_TIMESTAMP by a counter.                   *)
(***************************************************************************)
EXTENDS Integers, Sequences, FiniteSets, TLC

\* ---------------------------------------------------------------- bounds
MaxOps == 3          \* handler calls issued in one behaviour of Spec
MaxAmount == 1       \* amounts passed to the handlers range over -MaxAmount..MaxAmount
MaxInitial == 1      \* initial balances passed to create_account range over 0..MaxInitial
MaxClock == 1        \* CURRENT_TIMESTAMP ranges over 0..MaxClock

Usernames == {"alice", "bob"}
Passwords == {"pw"}
Amounts == (0 - MaxAmount)..MaxAmount
InitialBalances == 0..MaxInitial
\* account numbers passed as arguments: the first two that create_account
\* hands out and one that no account of these behaviours has
AccountArgs == {1001, 2002, 4004}
\* passwords tried at login: the one every account has and another one
LoginPasswords == Passwords \cup {"guess"}
\* limit arguments of get_transaction_history
Limits == {1, 2}

\* ------------------------------------------------------------- the store
VARIABLES
    db,      \* committed content of the database file: users, transactions, seq
    now,     \* CURRENT_TIMESTAMP
    nops,    \* calls issued so far (Spec)
    last,    \* the latest call of Spec and what it returned
    db0,     \* the store as the connections of SpecConc found it
    call,    \* per connection: the handler it runs and the arguments
    pc,      \* per connection: the statement of the handler it is at
    loc,     \* per connection: the handler's local variables
    res,     \* per connection: what the handler returned
    lock,    \* the connection that holds sqlite's write lock
    wdb,     \* the store as the holder of the write lock sees it
    session  \* st.session_state: logged_in, account_number, username

concvars == <<db0, call, pc, loc, res, lock, wdb>>
vars == <<db, now, nops, last, db0, call, pc, loc, res, lock, wdb, session>>

\* every call of a handler opens a connection of its own (get_connection)
Connections == {"c1", "c2"}
NoConn == "none"

\* effects is a history variable: which effects of which call a version of the
\* store contains (written by SpecConc only)
EmptyDB == [users |-> << >>, transactions |-> << >>, seq |-> 0, effects |-> {}]

\* ------------------------------------------------- text order of numbers
RECURSIVE Digits(_)
Digits(n) == IF n < 10 THEN <<n>> ELSE Append(Digits(n \div 10), n % 10)

RECURSIVE SeqLess(_, _)
SeqLess(s, t) ==
    IF s = << >> THEN t # << >>
    ELSE IF t = << >> THEN FALSE
    ELSE IF Head(s) # Head(t) THEN Head(s) < Head(t)
    ELSE SeqLess(Tail(s), Tail(t))

\* account_number is a TEXT column: MAX compares the decimal texts
TextLess(a, b) == SeqLess(Digits(a), Digits(b))

\* SELECT MAX(account_number) FROM users; 0 stands for NULL (int(None or 0))
max_account_number(users) ==
    IF DOMAIN users = {} THEN 0
    ELSE CHOOSE m \in DOMAIN users : \A a \in DOMAIN users : ~TextLess(m, a)

hash_password(password) == <<"sha256", password>>

\* ------------------------------------------------------------ statements
\* SELECT balance FROM users WHERE account_number = ?
select_balance(d, account_number) ==
    IF account_number \in DOMAIN d.users
    THEN [found |-> TRUE, balance |-> d.users[account_number].balance]
    ELSE [found |-> FALSE, balance |-> 0]

\* the UPDATE without its WHERE clause
update_balance_all_rows(d, account_number, new_balance) ==
    [d EXCEPT !.users = [a \in DOMAIN d.users |->
                            [d.users[a] EXCEPT !.balance = new_balance]]]

\* UPDATE users SET balance = ? WHERE account_number = ?
update_balance(d, account_number, new_balance) ==
    IF account_number \in DOMAIN d.users
    THEN [d EXCEPT !.users[account_number].balance = new_balance]
    ELSE d

\* the INSERT on a table whose key does not count up
insert_transaction_same_id(d, ts, account_number, transaction_type, amount, description) ==
    [d EXCEPT !.transactions = Append(@,
                  [transaction_id   |-> d.seq + 1,
                   account_number   |-> account_number,
                   transaction_type |-> transaction_type,
                   amount           |-> amount,
                   description      |-> description,
                   timestamp        |-> ts])]

\* INSERT INTO transactions (account_number, transaction_type, amount, description)
\* transaction_id is INTEGER PRIMARY KEY AUTOINCREMENT, timestamp CURRENT_TIMESTAMP
insert_transaction(d, ts, account_number, transaction_type, amount, description) ==
    [d EXCEPT !.transactions = Append(@,
                  [transaction_id   |-> d.seq + 1,
                   account_number   |-> account_number,
                   transaction_type |-> transaction_type,
                   amount           |-> amount,
                   description      |-> description,
                   timestamp        |-> ts]),
              !.seq = d.seq + 1]

\* the users table without UNIQUE on username
users_integrity_error_pk_only(d, account_number, username) ==
    account_number \in DOMAIN d.users

\* the UNIQUE and PRIMARY KEY constraints of the users table
users_integrity_error(d, account_number, username) ==
    \/ account_number \in DOMAIN d.users
    \/ \E a \in DOMAIN d.users : d.users[a].username = username

\* INSERT INTO users (account_number, username, password_hash, full_name, balance)
insert_user(d, ts, account_number, username, password_hash, full_name, balance) ==
    [d EXCEPT !.users = [a \in DOMAIN d.users \cup {account_number} |->
                           IF a = account_number
                           THEN [username      |-> username,
                                 password_hash |-> password_hash,
                                 full_name     |-> full_name,
                                 balance       |-> balance,
                                 created_at    |-> ts]
                           ELSE d.users[a]]]

\* ------------------------------------------- the handlers' own arithmetic
next_account_number(result) == result + 1001

deposit_new_balance(balance, amount) == balance + amount

withdraw_insufficient(amount, current_balance) == amount > current_balance

withdraw_new_balance(current_balance, amount) == current_balance - amount

transfer_not_found(from_result, to_result) == ~from_result.found \/ ~to_result.found

transfer_insufficient(amount, from_result) == amount > from_result.balance

transfer_new_from_balance(from_result, amount) == from_result.balance - amount

transfer_new_to_balance(to_result, amount) == to_result.balance + amount

\* the two log statements of transfer; a description is the tuple of the
\* parts of its text
log_transfer_out(d, ts, from_account, to_account, amount) ==
    insert_transaction(d, ts, from_account, "TRANSFER_OUT", amount,
                       <<"Transfer to", to_account>>)

\* the TRANSFER_IN record booked on the source account
log_transfer_in_on_source(d, ts, from_account, to_account, amount) ==
    insert_transaction(d, ts, from_account, "TRANSFER_IN", amount,
                       <<"Transfer from", from_account>>)

log_transfer_in(d, ts, from_account, to_account, amount) ==
    insert_transaction(d, ts, to_account, "TRANSFER_IN", amount,
                       <<"Transfer from", from_account>>)

\* what a handler hands back: the success flag, the message, the value that
\* goes with it (account number or balance; 0 where the handler has none)
\* and the database it leaves
Ret(ok, msg, val, d) == [ok |-> ok, msg |-> msg, val |-> val, db |-> d]

\* ------------------------------------------ the handlers, call to return
create_account(d, ts, username, password, full_name, initial_balance) ==
    LET account_number == next_account_number(max_account_number(d.users))
        password_hash  == hash_password(password)
    IN  IF users_integrity_error(d, account_number, username)
        THEN Ret(FALSE, "Username already exists", 0, d)
        ELSE Ret(TRUE, "Account created successfully", account_number,
                 insert_user(d, ts, account_number, username, password_hash,
                             full_name, initial_balance))

deposit(d, ts, account_number, amount, description) ==
    LET result == select_balance(d, account_number)
    IN  IF ~result.found
        THEN Ret(FALSE, "Account not found", 0, d)
        ELSE LET new_balance == deposit_new_balance(result.balance, amount)
             IN  Ret(TRUE, "Deposit successful", new_balance,
                     insert_transaction(
                         update_balance(d, account_number, new_balance),
                         ts, account_number, "DEPOSIT", amount, description))

withdraw(d, ts, account_number, amount, description) ==
    LET result == select_balance(d, account_number)
    IN  IF ~result.found
        THEN Ret(FALSE, "Account not found", 0, d)
        ELSE IF withdraw_insufficient(amount, result.balance)
        THEN Ret(FALSE, "Insufficient balance", result.balance, d)
        ELSE LET new_balance == withdraw_new_balance(result.balance, amount)
             IN  Ret(TRUE, "Withdrawal successful", new_balance,
                     insert_transaction(
                         update_balance(d, account_number, new_balance),
                         ts, account_number, "WITHDRAWAL", amount, description))

transfer(d, ts, from_account, to_account, amount) ==
    LET from_result == select_balance(d, from_account)
        to_result   == select_balance(d, to_account)
    IN  IF transfer_not_found(from_result, to_result)
        THEN Ret(FALSE, "One or both accounts not found", 0, d)
        ELSE IF transfer_insufficient(amount, from_result)
        THEN Ret(FALSE, "Insufficient balance", 0, d)
        ELSE LET new_from_balance == transfer_new_from_balance(from_result, amount)
                 new_to_balance   == transfer_new_to_balance(to_result, amount)
                 d1 == update_balance(d, from_account, new_from_balance)
                 d2 == update_balance(d1, to_account, new_to_balance)
             IN  Ret(TRUE, "Transfer successful", 0,
                     log_transfer_in(
                         log_transfer_out(d2, ts, from_account, to_account, amount),
                         ts, from_account, to_account, amount))

\* the dictionary built with the last two columns taken for each other
get_account_info_columns_swapped(d, account_number) ==
    IF account_number \in DOMAIN d.users
    THEN [username   |-> d.users[account_number].username,
          full_name  |-> d.users[account_number].full_name,
          balance    |-> d.users[account_number].created_at,
          created_at |-> d.users[account_number].balance]
    ELSE "None"

\* SELECT username, full_name, balance, created_at FROM users WHERE
\* account_number = ?; the dictionary of the row, or None
get_account_info(d, account_number) ==
    IF account_number \in DOMAIN d.users
    THEN [username   |-> d.users[account_number].username,
          full_name  |-> d.users[account_number].full_name,
          balance    |-> d.users[account_number].balance,
          created_at |-> d.users[account_number].created_at]
    ELSE "None"

\* the SELECT without the password_hash condition
select_account_number_by_username(d, username, password_hash) ==
    {a \in DOMAIN d.users : d.users[a].username = username}

\* SELECT account_number FROM users WHERE username = ? AND password_hash = ?
select_account_number(d, username, password_hash) ==
    {a \in DOMAIN d.users : /\ d.users[a].username = username
                            /\ d.users[a].password_hash = password_hash}

\* fetchone() of that SELECT; username is UNIQUE, so there is at most one row
verify_login(d, username, password) ==
    LET result == select_account_number(d, username, hash_password(password))
    IN  IF result # {}
        THEN Ret(TRUE, "", CHOOSE a \in result : TRUE, d)
        ELSE Ret(FALSE, "", "", d)

\* the dictionary get_transaction_history builds from a row
history_row(t) ==
    [id |-> t.transaction_id, type |-> t.transaction_type, amount |-> t.amount,
     description |-> t.description, timestamp |-> t.timestamp]

\* ORDER BY timestamp DESC LIMIT ?: the lists of rows (positions in the
\* table) the query may deliver; SQL leaves the order of rows with equal
\* timestamps open
RECURSIVE order_by_timestamp_desc_limit(_, _, _)
order_by_timestamp_desc_limit(d, rows, limit) ==
    IF limit <= 0 \/ rows = {} THEN {<< >>}
    ELSE LET latest == {i \in rows : \A j \in rows :
                           d.transactions[i].timestamp >= d.transactions[j].timestamp}
         IN  UNION {{<<i>> \o rest :
                        rest \in order_by_timestamp_desc_limit(d, rows \ {i}, limit - 1)} :
                    i \in latest}

\* the lists get_transaction_history may return
get_transaction_history(d, account_number, limit) ==
    LET rows == {i \in DOMAIN d.transactions :
                    d.transactions[i].account_number = account_number}
    IN  {[k \in DOMAIN f |-> history_row(d.transactions[f[k]])] :
         f \in order_by_timestamp_desc_limit(d, rows, limit)}

\* ------------------------------------------------------- Spec: one caller
NoCall == [op |-> "none", args |-> << >>, ok |-> FALSE, msg |-> "", val |-> 0]

Called(op, args, r) ==
    [op |-> op, args |-> args, ok |-> r.ok, msg |-> r.msg, val |-> r.val]

NoRow == [found |-> FALSE, balance |-> 0]
NoLoc == [result |-> NoRow, to_result |-> NoRow, account_number |-> 0]
\* seen and pending are history fields: the effects in the store a read
\* returned, and the effects written but not committed when the read
\* happened, or when the handler failed or died
NoRes == [state |-> "none", ok |-> FALSE, msg |-> "", val |-> 0,
          seen |-> {}, pending |-> {}]

\* st.session_state as the first run of the script leaves it; None is 0 for
\* the account number
NoSession == [logged_in |-> FALSE, account_number |-> 0, username |-> "None"]

ConcIdle ==
    /\ call = [p \in Connections |-> [op |-> "none", args |-> << >>]]
    /\ pc = [p \in Connections |-> 0]
    /\ loc = [p \in Connections |-> NoLoc]
    /\ res = [p \in Connections |-> NoRes]
    /\ lock = NoConn
    /\ wdb = db
    /\ db0 = db

Init ==
    /\ db = EmptyDB
    /\ now = 0
    /\ nops = 0
    /\ last = NoCall
    /\ session = NoSession
    /\ ConcIdle

\* A handler closes its connection only on the path that ends in commit().
\* On every other path the connection object is left to the garbage
\* collector, and where a failed INSERT has opened a transaction it keeps the
\* write lock until it is collected.
Garbage == "garbage"

\* the handler gets as far as its first INSERT or UPDATE
reaches_write(op, r) ==
    \/ op = "create_account"
    \/ op \in {"deposit", "withdraw", "transfer"} /\ r.ok

\* the INSERT of create_account raised IntegrityError
leaves_transaction_open(op, r) == op = "create_account" /\ ~r.ok

\* what the call returns: the first write of a handler fails after the busy
\* timeout while a dead connection holds the write lock
Outcome(op, r) ==
    IF lock # NoConn /\ reaches_write(op, r)
    THEN Ret(FALSE, "database is locked", 0, db)
    ELSE r

\* the call of a handler and what it leaves in the database file
Handle(op, args, r) ==
    /\ db' = Outcome(op, r).db
    /\ nops' = nops + 1
    /\ last' = Called(op, args, Outcome(op, r))
    /\ lock' = IF lock = NoConn /\ leaves_transaction_open(op, r)
               THEN Garbage ELSE lock
    /\ UNCHANGED <<now, db0, call, pc, loc, res, wdb>>

\* a call that is not issued through the pages of app.py
Finish(op, args, r) == Handle(op, args, r) /\ UNCHANGED session

CreateAccount ==
    /\ nops < MaxOps
    /\ \E username \in Usernames, password \in Passwords, initial_balance \in InitialBalances :
           Finish("create_account", <<username, password, initial_balance>>,
                  create_account(db, now, username, password, username, initial_balance))

Deposit ==
    /\ nops < MaxOps
    /\ \E account_number \in AccountArgs, amount \in Amounts :
           Finish("deposit", <<account_number, amount>>,
                  deposit(db, now, account_number, amount, <<"Deposit">>))

Withdraw ==
    /\ nops < MaxOps
    /\ \E account_number \in AccountArgs, amount \in Amounts :
           Finish("withdraw", <<account_number, amount>>,
                  withdraw(db, now, account_number, amount, <<"Withdrawal">>))

Transfer ==
    /\ nops < MaxOps
    /\ \E from_account \in AccountArgs, to_account \in AccountArgs, amount \in Amounts :
           Finish("transfer", <<from_account, to_account, amount>>,
                  transfer(db, now, from_account, to_account, amount))

GetAccountInfo ==
    /\ nops < MaxOps
    /\ \E account_number \in AccountArgs :
           Finish("get_account_info", <<account_number>>,
                  Ret(TRUE, "", get_account_info(db, account_number), db))

VerifyLogin ==
    /\ nops < MaxOps
    /\ \E username \in Usernames, password \in LoginPasswords :
           Finish("verify_login", <<username, password>>,
                  verify_login(db, username, password))

GetTransactionHistory ==
    /\ nops < MaxOps
    /\ \E account_number \in AccountArgs, limit \in Limits :
           \E transactions \in get_transaction_history(db, account_number, limit) :
               Finish("get_transaction_history", <<account_number, limit>>,
                      Ret(TRUE, "", transactions, db))

\* a second passes
Tick ==
    /\ now < MaxClock
    /\ now' = now + 1
    /\ UNCHANGED <<db, nops, last, session>>
    /\ UNCHANGED concvars

\* the garbage collector closes the dead connection, which rolls its open
\* transaction back and releases the write lock
CollectGarbage ==
    /\ lock = Garbage
    /\ lock' = NoConn
    /\ UNCHANGED <<db, now, nops, last, db0, call, pc, loc, res, wdb, session>>

Next ==
    \/ CreateAccount
    \/ Deposit
    \/ Withdraw
    \/ Transfer
    \/ GetAccountInfo
    \/ VerifyLogin
    \/ GetTransactionHistory
    \/ Tick
    \/ CollectGarbage

Spec == Init /\ [][Next]_vars

\* ------------------------------------- SpecConc: concurrent connections
\* The statements of each handler in program order. Everything between two
\* statements is local to the handler and is done with the statement before.
create_account_program == <<"SELECT_MAX", "INSERT_USER", "COMMIT">>

\* deposit with a commit() between the balance update and the log record
deposit_program_commit_after_update ==
    <<"SELECT", "UPDATE", "COMMIT", "INSERT", "COMMIT">>

deposit_program == <<"SELECT", "UPDATE", "INSERT", "COMMIT">>

withdraw_program == <<"SELECT", "UPDATE", "INSERT", "COMMIT">>

\* transfer with a commit() after the debit
transfer_program_commit_after_debit ==
    <<"SELECT_FROM", "SELECT_TO", "UPDATE_FROM", "COMMIT", "UPDATE_TO",
      "INSERT_OUT", "INSERT_IN", "COMMIT">>

transfer_program ==
    <<"SELECT_FROM", "SELECT_TO", "UPDATE_FROM", "UPDATE_TO",
      "INSERT_OUT", "INSERT_IN", "COMMIT">>

get_account_info_program == <<"SELECT_INFO">>

program(op) ==
    CASE op = "create_account"   -> create_account_program
      [] op = "deposit"          -> deposit_program
      [] op = "withdraw"         -> withdraw_program
      [] op = "transfer"         -> transfer_program
      [] op = "get_account_info" -> get_account_info_program
      [] OTHER                   -> << >>

Running(p) == call[p].op # "none" /\ res[p].state = "none"

\* the statement connection p executes next
stmt(p) ==
    IF Running(p) /\ pc[p] \in 1..Len(program(call[p].op))
    THEN program(call[p].op)[pc[p]]
    ELSE "none"

At(p, op, s) == call[p].op = op /\ stmt(p) = s

WriteStatements == {"INSERT_USER", "UPDATE", "INSERT", "UPDATE_FROM", "UPDATE_TO",
                    "INSERT_OUT", "INSERT_IN"}
ReadStatements == {"SELECT_MAX", "SELECT", "SELECT_FROM", "SELECT_TO", "SELECT_INFO"}

\* sqlite3.connect with the default isolation_level: a SELECT runs outside
\* any transaction and sees the committed file; the first INSERT or UPDATE
\* opens a transaction that takes the write lock and lasts until commit()
may_write(p) == lock \in {NoConn, p}
working(p) == IF lock = p THEN wdb ELSE db

Advance(p) == pc' = [pc EXCEPT ![p] = @ + 1]

\* what no statement of a handler touches
Frame == UNCHANGED <<now, nops, last, db0, call, session>>

\* a SELECT of p whose result the handler keeps in its locals
Read(p, locals) ==
    /\ loc' = [loc EXCEPT ![p] = locals]
    /\ Advance(p)
    /\ UNCHANGED <<db, res, lock, wdb>>
    /\ Frame

\* an INSERT or UPDATE of p that turns its version of the store into d
Write(p, d) ==
    /\ may_write(p)
    /\ lock' = p
    /\ wdb' = d
    /\ Advance(p)
    /\ UNCHANGED <<db, res, loc>>
    /\ Frame

\* what the file holds once the connection of a handler that returned without
\* commit() is collected, or its process has died: the open transaction is
\* rolled back
\* a handler that commits what it has written when it fails
after_abort_commits(committed, uncommitted) == uncommitted

after_abort(committed, uncommitted) == committed

Rollback(p) ==
    /\ db' = after_abort(db, working(p))
    /\ IF lock = p THEN lock' = NoConn /\ wdb' = db' ELSE UNCHANGED <<lock, wdb>>

Pending == wdb.effects \ db.effects

\* the handler returns: its frame, with the locals, is gone
Returned(p, ok, msg, val, seen, pending) ==
    /\ res' = [res EXCEPT ![p] = [state |-> "returned", ok |-> ok, msg |-> msg,
                                  val |-> val, seen |-> seen, pending |-> pending]]
    /\ pc' = [pc EXCEPT ![p] = 0]
    /\ loc' = [loc EXCEPT ![p] = NoLoc]

\* an early return or a caught exception: return False, ... without
\* conn.close(); a transaction the handler has open stays open
Fail(p, msg, val) ==
    /\ Returned(p, FALSE, msg, val, {}, IF lock = p THEN Pending ELSE {})
    /\ UNCHANGED <<db, lock, wdb>>
    /\ Frame

\* the INSERT of create_account fails inside the transaction it has opened
FailInTransaction(p, msg, val) ==
    /\ may_write(p)
    /\ Returned(p, FALSE, msg, val, {}, IF lock = p THEN Pending ELSE {})
    /\ lock' = p
    /\ wdb' = working(p)
    /\ UNCHANGED db
    /\ Frame

\* the garbage collector closes the connection of a handler that has
\* returned with its transaction open
Collect(p) ==
    /\ call[p].op # "none"
    /\ res[p].state = "returned"
    /\ lock = p
    /\ Rollback(p)
    /\ UNCHANGED <<pc, loc, res>>
    /\ Frame

Tag(d, p, effect) == [d EXCEPT !.effects = @ \cup {<<p, effect>>}]

\* the value a handler returns with True
success_val(p) ==
    CASE call[p].op = "create_account" -> loc[p].account_number
      [] call[p].op = "deposit"  ->
            deposit_new_balance(loc[p].result.balance, call[p].args[2])
      [] call[p].op = "withdraw" ->
            withdraw_new_balance(loc[p].result.balance, call[p].args[2])
      [] OTHER -> 0

success_msg(p) ==
    CASE call[p].op = "create_account" -> "Account created successfully"
      [] call[p].op = "deposit"  -> "Deposit successful"
      [] call[p].op = "withdraw" -> "Withdrawal successful"
      [] OTHER -> "Transfer successful"

CallArgs(op) ==
    CASE op = "create_account"   -> Usernames \X Passwords \X InitialBalances
      [] op = "deposit"          -> AccountArgs \X Amounts
      [] op = "withdraw"         -> AccountArgs \X Amounts
      [] op = "transfer"         -> AccountArgs \X AccountArgs \X Amounts
      [] op = "get_account_info" -> {<<a>> : a \in AccountArgs}

Handlers == {"create_account", "deposit", "withdraw", "transfer", "get_account_info"}

\* the connections are alike: c1 is the one whose handler is called first
MayCall(p) == p = "c1" \/ call["c1"].op # "none"

\* the presentation layer calls a handler; the handler opens its connection
Call(p) ==
    /\ call[p].op = "none"
    /\ MayCall(p)
    /\ \E op \in Handlers : \E args \in CallArgs(op) :
           call' = [call EXCEPT ![p] = [op |-> op, args |-> args]]
    /\ pc' = [pc EXCEPT ![p] = 1]
    /\ UNCHANGED <<db, loc, res, lock, wdb, now, nops, last, db0, session>>

\* ---- create_account
CreateSelectMax(p) ==
    /\ At(p, "create_account", "SELECT_MAX")
    /\ Read(p, [loc[p] EXCEPT !.account_number =
                   next_account_number(max_account_number(working(p).users))])

CreateInsert(p) ==
    /\ At(p, "create_account", "INSERT_USER")
    /\ may_write(p)
    /\ LET a == call[p].args
           d == working(p)
       IN  IF users_integrity_error(d, loc[p].account_number, a[1])
           THEN FailInTransaction(p, "Username already exists", 0)
           ELSE Write(p, insert_user(d, now, loc[p].account_number, a[1],
                                     hash_password(a[2]), a[1], a[3]))

\* ---- deposit
DepositSelect(p) ==
    /\ At(p, "deposit", "SELECT")
    /\ LET result == select_balance(working(p), call[p].args[1])
       IN  IF ~result.found
           THEN Fail(p, "Account not found", 0)
           ELSE Read(p, [loc[p] EXCEPT !.result = result])

DepositUpdate(p) ==
    /\ At(p, "deposit", "UPDATE")
    /\ Write(p, update_balance(working(p), call[p].args[1],
                    deposit_new_balance(loc[p].result.balance, call[p].args[2])))

DepositInsert(p) ==
    /\ At(p, "deposit", "INSERT")
    /\ Write(p, insert_transaction(working(p), now, call[p].args[1], "DEPOSIT",
                                   call[p].args[2], <<"Deposit">>))

\* ---- withdraw
WithdrawSelect(p) ==
    /\ At(p, "withdraw", "SELECT")
    /\ LET result == select_balance(working(p), call[p].args[1])
       IN  IF ~result.found
           THEN Fail(p, "Account not found", 0)
           ELSE IF withdraw_insufficient(call[p].args[2], result.balance)
           THEN Fail(p, "Insufficient balance", result.balance)
           ELSE Read(p, [loc[p] EXCEPT !.result = result])

WithdrawUpdate(p) ==
    /\ At(p, "withdraw", "UPDATE")
    /\ Write(p, update_balance(working(p), call[p].args[1],
                    withdraw_new_balance(loc[p].result.balance, call[p].args[2])))

WithdrawInsert(p) ==
    /\ At(p, "withdraw", "INSERT")
    /\ Write(p, insert_transaction(working(p), now, call[p].args[1], "WITHDRAWAL",
                                   call[p].args[2], <<"Withdrawal">>))

\* ---- transfer
TransferSelectFrom(p) ==
    /\ At(p, "transfer", "SELECT_FROM")
    /\ Read(p, [loc[p] EXCEPT !.result = select_balance(working(p), call[p].args[1])])

TransferSelectTo(p) ==
    /\ At(p, "transfer", "SELECT_TO")
    /\ LET from_result == loc[p].result
           to_result   == select_balance(working(p), call[p].args[2])
       IN  IF transfer_not_found(from_result, to_result)
           THEN Fail(p, "One or both accounts not found", 0)
           ELSE IF transfer_insufficient(call[p].args[3], from_result)
           THEN Fail(p, "Insufficient balance", 0)
           ELSE Read(p, [loc[p] EXCEPT !.to_result = to_result])

TransferUpdateFrom(p) ==
    /\ At(p, "transfer", "UPDATE_FROM")
    /\ Write(p, Tag(update_balance(working(p), call[p].args[1],
                        transfer_new_from_balance(loc[p].result, call[p].args[3])),
                    p, "debit"))

TransferUpdateTo(p) ==
    /\ At(p, "transfer", "UPDATE_TO")
    /\ Write(p, Tag(update_balance(working(p), call[p].args[2],
                        transfer_new_to_balance(loc[p].to_result, call[p].args[3])),
                    p, "credit"))

TransferInsertOut(p) ==
    /\ At(p, "transfer", "INSERT_OUT")
    /\ Write(p, Tag(log_transfer_out(working(p), now, call[p].args[1],
                                     call[p].args[2], call[p].args[3]),
                    p, "out"))

TransferInsertIn(p) ==
    /\ At(p, "transfer", "INSERT_IN")
    /\ Write(p, Tag(log_transfer_in(working(p), now, call[p].args[1],
                                    call[p].args[2], call[p].args[3]),
                    p, "in"))

\* ---- get_account_info
GetAccountInfoSelect(p) ==
    /\ At(p, "get_account_info", "SELECT_INFO")
    /\ Returned(p, TRUE, "", get_account_info(working(p), call[p].args[1]),
                working(p).effects, Pending)
    /\ UNCHANGED <<db, lock, wdb>>
    /\ Frame

\* ---- conn.commit(), and the return that follows the last one
Commit(p) ==
    /\ stmt(p) = "COMMIT"
    /\ may_write(p)
    /\ db' = working(p)
    /\ wdb' = working(p)
    /\ lock' = NoConn
    /\ IF pc[p] = Len(program(call[p].op))
       THEN Returned(p, TRUE, success_msg(p), success_val(p), {}, {})
       ELSE Advance(p) /\ UNCHANGED <<res, loc>>
    /\ Frame

\* a connection opened with no limit on the time it waits for the lock
waits_without_limit(p) == FALSE

\* sqlite3.connect(db_name) sets a busy timeout (the default, five seconds):
\* a statement that has waited that long for the lock gives up
busy_timeout_expires(p) == ~may_write(p)

\* another connection holds the write lock for longer than the busy timeout:
\* sqlite3.OperationalError "database is locked", caught by except Exception
Locked(p) ==
    /\ stmt(p) \in WriteStatements
    /\ busy_timeout_expires(p)
    /\ Fail(p, "database is locked", 0)

\* commit() cannot get the exclusive lock while another connection reads
CommitLocked(p) ==
    /\ stmt(p) = "COMMIT"
    /\ \E q \in Connections \ {p} : stmt(q) \in ReadStatements
    /\ Fail(p, "database is locked", 0)

\* the process dies in the middle of a handler; sqlite rolls the journal back
Crash(p) ==
    /\ Running(p)
    /\ res' = [res EXCEPT ![p].state = "crashed", ![p].pending = Pending]
    /\ pc' = [pc EXCEPT ![p] = 0]
    /\ loc' = [loc EXCEPT ![p] = NoLoc]
    /\ Rollback(p)
    /\ Frame

\* one statement of one connection at a time; the clock stands still, since
\* no handler reads a timestamp
NextConc ==
    \E p \in Connections :
        \/ Call(p)
        \/ CreateSelectMax(p)
        \/ CreateInsert(p)
        \/ DepositSelect(p)
        \/ DepositUpdate(p)
        \/ DepositInsert(p)
        \/ WithdrawSelect(p)
        \/ WithdrawUpdate(p)
        \/ WithdrawInsert(p)
        \/ TransferSelectFrom(p)
        \/ TransferSelectTo(p)
        \/ TransferUpdateFrom(p)
        \/ TransferUpdateTo(p)
        \/ TransferInsertOut(p)
        \/ TransferInsertIn(p)
        \/ GetAccountInfoSelect(p)
        \/ Commit(p)
        \/ Locked(p)
        \/ CommitLocked(p)
        \/ Collect(p)
        \/ Crash(p)

\* the stores that create_account leaves when called for alice, then for bob
Seeded1(b) == create_account(EmptyDB, 0, "alice", "pw", "alice", b).db
Seeded2(b1, b2) == create_account(Seeded1(b1), 0, "bob", "pw", "bob", b2).db
SeededDBs ==
    {EmptyDB} \cup {Seeded1(b) : b \in InitialBalances}
              \cup {Seeded2(b1, b2) : b1 \in InitialBalances, b2 \in InitialBalances}

InitConc ==
    /\ db \in SeededDBs
    /\ now = 0
    /\ nops = 0
    /\ last = NoCall
    /\ session = NoSession
    /\ ConcIdle

SpecConc == InitConc /\ [][NextConc]_vars

\* ------------------------------- SpecFair: connections that keep running
\* the next statement of the handler that connection p runs
Proceed(p) ==
    \/ CreateSelectMax(p)
    \/ CreateInsert(p)
    \/ DepositSelect(p)
    \/ DepositUpdate(p)
    \/ DepositInsert(p)
    \/ WithdrawSelect(p)
    \/ WithdrawUpdate(p)
    \/ WithdrawInsert(p)
    \/ TransferSelectFrom(p)
    \/ TransferSelectTo(p)
    \/ TransferUpdateFrom(p)
    \/ TransferUpdateTo(p)
    \/ TransferInsertOut(p)
    \/ TransferInsertIn(p)
    \/ GetAccountInfoSelect(p)
    \/ Commit(p)
    \/ Locked(p)
    \/ CommitLocked(p)

\* A handler runs in a thread of its own that the scheduler keeps serving, so
\* a statement that stays possible is executed. Nothing is assumed about
\* when a new handler is called, when the garbage collector runs, or
\* whether a process dies.
Fairness == \A p \in Connections : WF_vars(Proceed(p))

\* the store holds the accounts of alice and bob, each with MaxInitial
InitFair ==
    /\ db = Seeded2(MaxInitial, MaxInitial)
    /\ now = 0
    /\ nops = 0
    /\ last = NoCall
    /\ session = NoSession
    /\ ConcIdle

SpecFair == InitFair /\ [][NextConc]_vars /\ Fairness

\* ------------------------ SpecHistory: one caller and one existing account
\* The calls the dashboard of a logged-in user issues on its own account:
\* deposits, withdrawals and the transaction history.
InitHistory ==
    /\ db \in {Seeded1(b) : b \in InitialBalances}
    /\ now = 0
    /\ nops = 0
    /\ last = NoCall
    /\ session = NoSession
    /\ ConcIdle

NextHistory == Deposit \/ Withdraw \/ GetTransactionHistory \/ Tick

SpecHistory == InitHistory /\ [][NextHistory]_vars

\* ------------------------------ SpecApp: the pages of app.py, one browser
\* One session of the Streamlit script. Each click of a button reruns the
\* script: main() shows login_page while logged_in is false and the dashboard
\* while it is true, and the branch of the clicked button runs.

\* the number inputs of the pages have a minimum above zero
PageAmounts == 1..MaxAmount
PageInitialBalances == 1..MaxInitial

\* what the Login button stores after verify_login returned True
login_session(username, account_number) ==
    [logged_in |-> TRUE, account_number |-> account_number, username |-> username]

\* a Logout button that clears the flag and keeps the account
logout_session_keeps_account(s) == [s EXCEPT !.logged_in = FALSE]
\* what the Logout button stores
logout_session(s) == NoSession

\* main(): which page the script shows
page == IF session.logged_in THEN "dashboard" ELSE "login_page"

\* dashboard(): the tabs and the Logout button are drawn only if
\* get_account_info found the account of the session
account_info_found == session.account_number \in DOMAIN db.users

LoginButton ==
    /\ page = "login_page"
    /\ nops < MaxOps
    /\ \E username \in Usernames, password \in LoginPasswords :
           LET r == verify_login(db, username, password)
           IN  /\ Handle("verify_login", <<username, password>>, r)
               /\ session' = IF r.ok THEN login_session(username, r.val)
                                     ELSE session

CreateAccountButton ==
    /\ page = "login_page"
    /\ nops < MaxOps
    /\ \E new_username \in Usernames, new_password \in Passwords,
          initial_balance \in PageInitialBalances :
           Handle("create_account", <<new_username, new_password, initial_balance>>,
                  create_account(db, now, new_username, new_password,
                                 new_username, initial_balance))
    /\ UNCHANGED session

DepositButton ==
    /\ page = "dashboard"
    /\ account_info_found
    /\ nops < MaxOps
    /\ \E deposit_amount \in PageAmounts :
           Handle("deposit", <<session.account_number, deposit_amount>>,
                  deposit(db, now, session.account_number, deposit_amount,
                          <<"Deposit">>))
    /\ UNCHANGED session

WithdrawButton ==
    /\ page = "dashboard"
    /\ account_info_found
    /\ nops < MaxOps
    /\ \E withdraw_amount \in PageAmounts :
           Handle("withdraw", <<session.account_number, withdraw_amount>>,
                  withdraw(db, now, session.account_number, withdraw_amount,
                           <<"Withdrawal">>))
    /\ UNCHANGED session

TransferButton ==
    /\ page = "dashboard"
    /\ account_info_found
    /\ nops < MaxOps
    /\ \E to_account \in AccountArgs, transfer_amount \in PageAmounts :
           Handle("transfer",
                  <<session.account_number, to_account, transfer_amount>>,
                  transfer(db, now, session.account_number, to_account,
                           transfer_amount))
    /\ UNCHANGED session

LogoutButton ==
    /\ page = "dashboard"
    /\ account_info_found
    /\ session' = logout_session(session)
    /\ UNCHANGED <<db, now, nops, last>>
    /\ UNCHANGED concvars

\* the database file the script opens holds the accounts created before
InitApp ==
    /\ db \in SeededDBs
    /\ now = 0
    /\ nops = 0
    /\ last = NoCall
    /\ session = NoSession
    /\ ConcIdle

NextApp ==
    \/ LoginButton
    \/ CreateAccountButton
    \/ DepositButton
    \/ WithdrawButton
    \/ TransferButton
    \/ LogoutButton
    \/ CollectGarbage
    \/ Tick

SpecApp == InitApp /\ [][NextApp]_vars

\* ================================================================ claims
Balance(d, a) == d.users[a].balance

\* the step is a call of handler op of Spec
CallOf(op) == nops' = nops + 1 /\ last'.op = op

\* C1: after any sequence of create_account (initial balance >= 0), deposit,
\* withdraw and transfer calls, with any account numbers and any amounts,
\* every stored balance is >= 0.
C1_BalanceNonNegative ==
    \A a \in DOMAIN db.users : Balance(db, a) >= 0

\* C2: transfer(A, A, amount) fails for every amount and leaves the balance
\* of A and the transaction log unchanged.
C2_SelfTransferRejected ==
    [][(CallOf("transfer") /\ last'.args[1] = last'.args[2])
          => (~last'.ok /\ db' = db)]_vars

\* C6: transfer(A, B, amount) with amount <= 0 fails and leaves the balances
\* and the transaction log unchanged.
C6_NonPositiveTransferRejected ==
    [][(CallOf("transfer") /\ last'.args[3] <= 0)
          => (~last'.ok /\ db' = db)]_vars

\* C7: deposit and withdraw with amount <= 0 fail (with an invalid-amount
\* error) and leave the balance and the transaction log unchanged.
C7_NonPositiveAmountRejected ==
    [][((CallOf("deposit") \/ CallOf("withdraw")) /\ last'.args[2] <= 0)
          => (~last'.ok /\ db' = db)]_vars

\* C8: a successful withdraw of a, or transfer of a out of A, leaves
\* balance(A) = b - a; a successful deposit leaves b + a; a successful
\* transfer into B leaves balance(B) = c + a (b, c the balances before the
\* call); deposit and withdraw return that new balance.
C8_NewBalance ==
    [][(nops' = nops + 1 /\ last'.ok) =>
          LET a == last'.args IN
          /\ last'.op = "deposit" =>
                /\ Balance(db', a[1]) = Balance(db, a[1]) + a[2]
                /\ last'.val = Balance(db, a[1]) + a[2]
          /\ last'.op = "withdraw" =>
                /\ Balance(db', a[1]) = Balance(db, a[1]) - a[2]
                /\ last'.val = Balance(db, a[1]) - a[2]
          /\ last'.op = "transfer" =>
                /\ Balance(db', a[1]) = Balance(db, a[1]) - a[3]
                /\ Balance(db', a[2]) = Balance(db, a[2]) + a[3]]_vars

\* ---- claims about concurrent connections (SpecConc)
ReturnedTrue(p) == res[p].state = "returned" /\ res[p].ok
ReturnedFalse(p) == res[p].state = "returned" /\ ~res[p].ok
Quiet == \A p \in Connections : ~Running(p)

\* C3: two withdraw calls on separate connections against the same account
\* cannot both succeed on the same pre-mutation balance: if the balance b
\* covers each amount alone but not their sum, at most one returns success.
C3_NoDoubleSpend ==
    \A p \in Connections, q \in Connections :
        (/\ p # q
         /\ call[p].op = "withdraw" /\ call[q].op = "withdraw"
         /\ call[p].args[1] = call[q].args[1]
         /\ call[p].args[1] \in DOMAIN db0.users
         /\ call[p].args[2] <= Balance(db0, call[p].args[1])
         /\ call[q].args[2] <= Balance(db0, call[p].args[1])
         /\ call[p].args[2] + call[q].args[2] > Balance(db0, call[p].args[1]))
        => ~(ReturnedTrue(p) /\ ReturnedTrue(q))

\* the store that handler call c leaves when it runs alone on store d
Apply(c, d) ==
    CASE c.op = "create_account" ->
            create_account(d, now, c.args[1], c.args[2], c.args[1], c.args[3]).db
      [] c.op = "deposit"  -> deposit(d, now, c.args[1], c.args[2], <<"Deposit">>).db
      [] c.op = "withdraw" -> withdraw(d, now, c.args[1], c.args[2], <<"Withdrawal">>).db
      [] c.op = "transfer" -> transfer(d, now, c.args[1], c.args[2], c.args[3]).db
      [] OTHER -> d

RECURSIVE RunSerially(_, _)
RunSerially(order, d) ==
    IF order = << >> THEN d
    ELSE RunSerially(Tail(order), Apply(call[Head(order)], d))

Orders(S) ==
    {f \in [1..Cardinality(S) -> S] : \A i, j \in DOMAIN f : i # j => f[i] # f[j]}

Balances(d) == [a \in DOMAIN d.users |-> Balance(d, a)]

\* a deposit, withdraw or transfer of a positive amount, the transfer
\* between two different accounts
Proper(c) ==
    \/ c.op \in {"deposit", "withdraw"} /\ c.args[2] > 0
    \/ c.op = "transfer" /\ c.args[3] > 0 /\ c.args[1] # c.args[2]

\* C4: when a transfer ran concurrently with a transfer, deposit or withdraw
\* (each of a positive amount, no transfer from an account to itself), the
\* final committed balances are those of running the successful operations
\* one after another in some serial order.
C4_Serializable ==
    (/\ Quiet
     /\ \A p \in Connections : Proper(call[p])
     /\ \E p \in Connections : call[p].op = "transfer")
    => \E order \in Orders({p \in Connections : ReturnedTrue(p)}) :
           Balances(RunSerially(order, db0)) = Balances(db)

TransferEffects == {"debit", "credit", "out", "in"}

EffectsOf(p, effects) == {e \in TransferEffects : <<p, e>> \in effects}

AllOrNothing(effects) ==
    \A p \in Connections : EffectsOf(p, effects) \in {{}, TransferEffects}

\* C5: the four effects of a transfer become visible together: no committed
\* state (also after a crash before commit) and no state read by a concurrent
\* get_account_info holds some but not all of them.
C5_TransferVisibleWhole ==
    /\ AllOrNothing(db.effects)
    /\ \A q \in Connections : AllOrNothing(res[q].seen)

\* a read took place, and a connection died, while a transfer had written
\* some of its effects and not committed
C5_Witness ==
    \E p \in Connections, q \in Connections :
        /\ call[p].op = "transfer" /\ res[p].state = "crashed"
        /\ EffectsOf(p, res[p].pending) = {"debit", "credit"}
        /\ call[q].op = "get_account_info" /\ res[q].state = "returned"
        /\ EffectsOf(p, res[q].pending) = {"debit"}

TransferReturns(p, ok) ==
    /\ call[p].op = "transfer"
    /\ res[p].state = "none"
    /\ res'[p].state = "returned"
    /\ res'[p].ok = ok

IsTransferRecord(r) == r.transaction_type \in {"TRANSFER_OUT", "TRANSFER_IN"}

Appended == SubSeq(db'.transactions, Len(db.transactions) + 1, Len(db'.transactions))

\* C9: every successful transfer of a from A to B appends exactly two records
\* in one atomic step, one TRANSFER_OUT of a on A and one TRANSFER_IN of a on
\* B, and nothing else; no other step appends a transfer record.
C9_TransferAppendsPair ==
    [][/\ \A p \in Connections : TransferReturns(p, TRUE) =>
              LET a == call[p].args
                  n == Len(db.transactions)
                  t == db'.transactions
              IN  /\ Len(t) = n + 2
                  /\ SubSeq(t, 1, n) = db.transactions
                  /\ t[n + 1].transaction_type = "TRANSFER_OUT"
                  /\ t[n + 1].account_number = a[1]
                  /\ t[n + 1].amount = a[3]
                  /\ t[n + 2].transaction_type = "TRANSFER_IN"
                  /\ t[n + 2].account_number = a[2]
                  /\ t[n + 2].amount = a[3]
       /\ (\E i \in DOMAIN Appended : IsTransferRecord(Appended[i]))
              => \E p \in Connections : TransferReturns(p, TRUE)]_vars

\* a transfer between two accounts has returned True and its pair is logged
C9_Witness ==
    \E p \in Connections :
        /\ call[p].op = "transfer" /\ ReturnedTrue(p)
        /\ call[p].args[1] # call[p].args[2]
        /\ call[p].args[3] > 0
        /\ \E i \in DOMAIN db.transactions :
               /\ i + 1 \in DOMAIN db.transactions
               /\ db.transactions[i].transaction_type = "TRANSFER_OUT"
               /\ db.transactions[i + 1].transaction_type = "TRANSFER_IN"

\* C10: a transfer that fails, for whatever reason, changes nothing: the step
\* in which it returns False leaves the committed store as it was, the store
\* holds no effect of it, and when no other call ran the store is the one
\* the transfer found.
C10_FailedTransferChangesNothing ==
    [][\A p \in Connections :
          /\ TransferReturns(p, FALSE) => db' = db
          /\ (call'[p].op = "transfer" /\ res'[p].state = "returned" /\ ~res'[p].ok)
                => /\ EffectsOf(p, db'.effects) = {}
                   /\ (\A q \in Connections \ {p} : call'[q].op = "none")
                          => db' = db0]_vars

\* a transfer failed in commit(), after it had written all four of its effects
C10_Witness ==
    \E p \in Connections :
        /\ call[p].op = "transfer" /\ ReturnedFalse(p)
        /\ res[p].msg = "database is locked"
        /\ EffectsOf(p, res[p].pending) = TransferEffects
        /\ call[p].args[1] # call[p].args[2]
        /\ call[p].args[3] > 0
        /\ db = db0

\* ---- claims about one caller, continued (Spec)
Exists(d, a) == a \in DOMAIN d.users

InsufficientFunds(c) == ~c.ok /\ c.msg = "Insufficient balance"

\* C11: on existing accounts withdraw(A, a) and transfer(A, B, a) fail with
\* insufficient funds exactly when a > balance(A); with a = balance(A) they
\* succeed and leave balance(A) = 0, and from balance 0 every withdraw or
\* transfer of a positive amount fails; a failed withdraw leaves balance and
\* log unchanged and reports the unchanged balance.
C11_InsufficientExactlyAboveBalance ==
    [][LET c == last'
           A == c.args[1]
       IN  /\ (CallOf("withdraw") /\ Exists(db, A)) =>
                 /\ InsufficientFunds(c) <=> c.args[2] > Balance(db, A)
                 /\ c.args[2] = Balance(db, A) => (c.ok /\ Balance(db', A) = 0)
                 /\ (Balance(db, A) = 0 /\ c.args[2] > 0) => ~c.ok
                 /\ ~c.ok => (db' = db /\ c.val = Balance(db, A))
           /\ (CallOf("transfer") /\ Exists(db, A) /\ Exists(db, c.args[2])) =>
                 /\ InsufficientFunds(c) <=> c.args[3] > Balance(db, A)
                 /\ c.args[3] = Balance(db, A) => (c.ok /\ Balance(db', A) = 0)
                 /\ (Balance(db, A) = 0 /\ c.args[3] > 0) => ~c.ok]_vars

\* ---- claims about create_account
UsernameStored(d, username) == \E a \in DOMAIN d.users : d.users[a].username = username

CreateReturns(p) ==
    /\ call[p].op = "create_account"
    /\ res[p].state = "none"
    /\ res'[p].state = "returned"

\* C12: create_account with a username that is not stored succeeds, also with
\* other create_account calls running at the same time (a busy store aside):
\* it adds exactly one row, with the initial balance and an account number no
\* other account has; 'Username already exists' is returned only when the
\* username is stored.
C12_NewUsernameAccepted ==
    [][\A p \in Connections : CreateReturns(p) =>
          LET a == call[p].args
              r == res'[p]
          IN  /\ r.msg = "Username already exists" => UsernameStored(db, a[1])
              /\ ~UsernameStored(db, a[1]) => (r.ok \/ r.msg = "database is locked")
              /\ r.ok => /\ r.val \notin DOMAIN db.users
                         /\ DOMAIN db'.users = DOMAIN db.users \cup {r.val}
                         /\ db'.users[r.val].username = a[1]
                         /\ Balance(db', r.val) = a[3]]_vars

\* C13: account numbers are handed out in sequence: the first successful
\* create_account returns 1001, the second 1002, the k-th 1000 + k, whatever
\* failed attempts lie in between.
C13_SequentialAccountNumbers ==
    [][(CallOf("create_account") /\ last'.ok)
          => last'.val = 1000 + Cardinality(DOMAIN db'.users)]_vars

\* C14: create_account with a username that is stored fails, adds no row,
\* changes no account and no transaction record, and leaves the account
\* number that the next create_account computes as it was.
C14_DuplicateUsernameRejected ==
    [][(CallOf("create_account") /\ UsernameStored(db, last'.args[1]))
          => /\ ~last'.ok
             /\ db'.users = db.users
             /\ db'.transactions = db.transactions
             /\ next_account_number(max_account_number(db'.users))
                    = next_account_number(max_account_number(db.users))]_vars

\* a stored username was refused while the store held an account and a record
C14_Witness ==
    /\ last.op = "create_account"
    /\ ~last.ok
    /\ last.msg = "Username already exists"
    /\ UsernameStored(db, last.args[1])
    /\ db.transactions # << >>

\* ---- claims about the reads
\* transaction ids of the records of account a in the log
IdsOf(d, a) ==
    {d.transactions[i].transaction_id :
        i \in {j \in DOMAIN d.transactions : d.transactions[j].account_number = a}}

\* C15: get_transaction_history(A, limit) returns at most limit records, all
\* of them records of A, the most recently created ones, newest first,
\* whatever timestamps the store gave them (stated here for logs written by
\* deposits and withdrawals of positive amounts).
C15_HistoryNewestFirst ==
    (/\ last.op = "get_transaction_history"
     /\ \A i \in DOMAIN db.transactions : db.transactions[i].amount > 0) =>
        LET A == last.args[1]
            transactions == last.val
            returned == {transactions[i].id : i \in DOMAIN transactions}
        IN  /\ Len(transactions) <= last.args[2]
            /\ returned \subseteq IdsOf(db, A)
            /\ \A i, j \in DOMAIN transactions :
                   i < j => transactions[i].id > transactions[j].id
            /\ \A x \in IdsOf(db, A) \ returned : \A y \in returned : y > x

\* C18: verify_login returns True and the account number exactly when the
\* username is stored and its stored hash is the hash of the password given;
\* an unknown username and a wrong password give the same failure value.
C18_LoginIffCredentialsMatch ==
    last.op = "verify_login" =>
        LET matching == {a \in DOMAIN db.users :
                            /\ db.users[a].username = last.args[1]
                            /\ db.users[a].password_hash = hash_password(last.args[2])}
        IN  /\ last.ok <=> matching # {}
            /\ last.ok => last.val \in matching
            /\ ~last.ok => (last.msg = "" /\ last.val = "")

\* a login with the wrong password for a stored username was refused
C18_Witness ==
    /\ last.op = "verify_login"
    /\ ~last.ok
    /\ UsernameStored(db, last.args[1])

\* ---- claims about the log (SpecConc)
DepositOrWithdrawReturns(p) ==
    /\ call[p].op \in {"deposit", "withdraw"}
    /\ res[p].state = "none"
    /\ res'[p].state = "returned"
    /\ res'[p].ok

RecordTypeOf(op) == IF op = "deposit" THEN "DEPOSIT" ELSE "WITHDRAWAL"

\* C16: every successful deposit or withdraw appends exactly one record, of
\* type DEPOSIT or WITHDRAWAL, on that account and with that amount, in the
\* same atomic step as the balance it wrote; no step appends such a record
\* otherwise, and no step changes a balance without appending a record.
C16_DepositWithdrawAppendsOne ==
    [][/\ \A p \in Connections : DepositOrWithdrawReturns(p) =>
              LET a == call[p].args
                  n == Len(db.transactions)
                  t == db'.transactions
              IN  /\ Len(t) = n + 1
                  /\ SubSeq(t, 1, n) = db.transactions
                  /\ t[n + 1].transaction_type = RecordTypeOf(call[p].op)
                  /\ t[n + 1].account_number = a[1]
                  /\ t[n + 1].amount = a[2]
                  /\ Balance(db', a[1]) = res'[p].val
       /\ (\E i \in DOMAIN Appended :
              Appended[i].transaction_type \in {"DEPOSIT", "WITHDRAWAL"})
              => \E p \in Connections : DepositOrWithdrawReturns(p)
       /\ (\E a \in DOMAIN db.users : Balance(db', a) # Balance(db, a))
              => Len(db'.transactions) > Len(db.transactions)]_vars

\* a deposit of a positive amount has returned True; its record is the last
\* of the log and the balance is the one it returned
C16_Witness ==
    \E p \in Connections :
        /\ call[p].op = "deposit" /\ ReturnedTrue(p)
        /\ call[p].args[2] > 0
        /\ db.transactions # << >>
        /\ LET r == db.transactions[Len(db.transactions)]
           IN  /\ r.transaction_type = "DEPOSIT"
               /\ r.account_number = call[p].args[1]
        /\ Balance(db, call[p].args[1]) = res[p].val

\* C17: the log is append-only with increasing ids: every step leaves each
\* stored record as it is and in place, and every record it adds has a
\* transaction_id greater than the id of every record stored before it.
C17_LogAppendOnly ==
    [][LET n == Len(db.transactions)
           t == db'.transactions
       IN  /\ Len(t) >= n
           /\ SubSeq(t, 1, n) = db.transactions
           /\ \A i \in (n + 1)..Len(t) : \A j \in 1..(i - 1) :
                  t[i].transaction_id > t[j].transaction_id]_vars

\* two connections have committed records, three or more in all
C17_Witness ==
    /\ \A p \in Connections : ReturnedTrue(p) /\ call[p].op # "get_account_info"
    /\ Len(db.transactions) >= 3

\* the accounts a deposit, withdraw or transfer call names
NamedAccounts(c) ==
    IF c.op = "transfer" THEN {c.args[1], c.args[2]}
    ELSE IF c.op \in {"deposit", "withdraw"} THEN {c.args[1]}
    ELSE {}

\* C20: an account, once created, is never deleted, and its account number,
\* username, password hash, full name and creation time never change; a
\* balance changes only in the step in which a deposit, withdraw or transfer
\* that names the account returns True.
C20_AccountsImmutable ==
    [][/\ DOMAIN db.users \subseteq DOMAIN db'.users
       /\ \A a \in DOMAIN db.users :
              /\ db'.users[a].username = db.users[a].username
              /\ db'.users[a].password_hash = db.users[a].password_hash
              /\ db'.users[a].full_name = db.users[a].full_name
              /\ db'.users[a].created_at = db.users[a].created_at
              /\ Balance(db', a) # Balance(db, a) =>
                     \E p \in Connections :
                         /\ res[p].state = "none"
                         /\ res'[p].state = "returned" /\ res'[p].ok
                         /\ a \in NamedAccounts(call[p])]_vars

\* a deposit changed the balance of its account while the store held a
\* second account, which is as it was
C20_Witness ==
    \E p \in Connections : \E a \in DOMAIN db.users, b \in DOMAIN db.users :
        /\ call[p].op = "deposit" /\ ReturnedTrue(p)
        /\ call[p].args[1] = a
        /\ b # a
        /\ Balance(db, a) # Balance(db0, a)
        /\ db.users[b] = db0.users[b]

\* C19: every call of deposit, withdraw, transfer or create_account comes to
\* an end, also while another connection works on the same store: a running
\* handler eventually returns, True or False (or its process has died); two
\* transfers in opposite directions are no exception.
C19_EveryCallReturns ==
    \A p \in Connections : Running(p) ~> ~Running(p)

\* two transfers in opposite directions have both returned, one of them with
\* True and the other, which found the store locked, with False
C19_Witness ==
    \E p \in Connections, q \in Connections :
        /\ call[p].op = "transfer" /\ call[q].op = "transfer"
        /\ call[p].args[1] # call[p].args[2]
        /\ call[q].args[1] = call[p].args[2]
        /\ call[q].args[2] = call[p].args[1]
        /\ ReturnedTrue(p)
        /\ ReturnedFalse(q) /\ res[q].msg = "database is locked"

\* ---- claims about one caller, continued (Spec)
\* C21: deposit(A, amount) with amount > 0 succeeds whenever account A
\* exists, whatever its balance; on an account that does not exist deposit
\* and withdraw fail with 'Account not found', change no balance and append
\* no record.
C21_DepositSucceedsOnExisting ==
    [][LET c == last'
       IN  /\ (CallOf("deposit") /\ c.args[2] > 0 /\ Exists(db, c.args[1])) => c.ok
           /\ ((CallOf("deposit") \/ CallOf("withdraw")) /\ ~Exists(db, c.args[1]))
                  => (~c.ok /\ c.msg = "Account not found" /\ db' = db)]_vars

TransactionTypes == {"DEPOSIT", "WITHDRAWAL", "TRANSFER_IN", "TRANSFER_OUT"}

\* C22: in every reachable state every stored transaction record has an
\* amount > 0 and a transaction_type that is one of DEPOSIT, WITHDRAWAL,
\* TRANSFER_IN, TRANSFER_OUT.
C22_RecordsWellFormed ==
    \A i \in DOMAIN db.transactions :
        /\ db.transactions[i].amount > 0
        /\ db.transactions[i].transaction_type \in TransactionTypes

\* ---- claims about the books (SpecConc, Spec)
\* what a record adds to the balance of its account
Signed(r) ==
    IF r.transaction_type \in {"DEPOSIT", "TRANSFER_IN"} THEN r.amount
    ELSE 0 - r.amount

\* the sum of the signed amounts of the first n records that are on account a
RECURSIVE LogNet(_, _, _)
LogNet(t, a, n) ==
    IF n = 0 THEN 0
    ELSE LogNet(t, a, n - 1) + (IF t[n].account_number = a THEN Signed(t[n]) ELSE 0)

\* C23: in every committed state the balance of every account is its initial
\* balance plus its DEPOSIT and TRANSFER_IN amounts minus its WITHDRAWAL and
\* TRANSFER_OUT amounts (stated here for the accounts the connections found,
\* and for calls of positive amounts with no transfer from an account to
\* itself).
C23_LogReconciles ==
    (\A p \in Connections : call[p].op = "none" \/ Proper(call[p]))
    => \A a \in DOMAIN db0.users :
           Balance(db, a) = Balance(db0, a)
                              + LogNet(db.transactions, a, Len(db.transactions))

\* the sum of the balances of the accounts in S
RECURSIVE SumOfBalances(_, _)
SumOfBalances(d, S) ==
    IF S = {} THEN 0
    ELSE LET a == CHOOSE x \in S : TRUE
         IN  Balance(d, a) + SumOfBalances(d, S \ {a})

TotalMoney(d) == SumOfBalances(d, DOMAIN d.users)

\* C24: money is conserved: a transfer, successful or failed, leaves the sum
\* of all balances as it was; a successful create_account adds the initial
\* balance, a successful deposit adds its amount, a successful withdraw takes
\* its amount away, and every failed call leaves the sum as it was.
C24_MoneyConserved ==
    [][nops' = nops + 1 =>
          LET c == last'
              change == TotalMoney(db') - TotalMoney(db)
          IN  /\ c.op = "transfer" => change = 0
              /\ ~c.ok => change = 0
              /\ (c.op = "create_account" /\ c.ok) => change = c.args[3]
              /\ (c.op = "deposit" /\ c.ok) => change = c.args[2]
              /\ (c.op = "withdraw" /\ c.ok) => change = 0 - c.args[2]]_vars

\* ---- claims about the reads, continued (Spec)
ReadHandlers == {"get_account_info", "get_transaction_history", "verify_login"}

\* C25: get_account_info, get_transaction_history and verify_login change no
\* account and no transaction record; get_account_info returns the stored
\* username, full name, balance and creation time of an account that exists,
\* and None, not an error, for one that does not.
C25_ReadsChangeNothing ==
    [][(nops' = nops + 1 /\ last'.op \in ReadHandlers) =>
          /\ db' = db
          /\ last'.op = "get_account_info" =>
                LET a == last'.args[1]
                IN  IF Exists(db, a)
                    THEN /\ last'.val.username = db.users[a].username
                         /\ last'.val.full_name = db.users[a].full_name
                         /\ last'.val.balance = db.users[a].balance
                         /\ last'.val.created_at = db.users[a].created_at
                    ELSE last'.ok /\ last'.val = "None"]_vars

\* get_account_info has answered for an account whose balance a deposit had
\* changed, in a second later than the one of its creation
C25_Witness ==
    /\ last.op = "get_account_info"
    /\ Exists(db, last.args[1])
    /\ db.transactions # << >>
    /\ last.val.balance = Balance(db, last.args[1])
    /\ last.val.balance # last.val.created_at

\* C26: in the session state machine of the pages, logged_in becomes true
\* only in a step that is a successful verify_login, and the session then
\* holds the account number that call returned and the username typed;
\* while logged_in stays true the session does not change; every deposit,
\* withdraw and transfer the dashboard issues has the session's account as
\* its account (for transfer: as the source); and whenever logged_in is
\* false, at the start and after Logout, account_number and username are
\* none.
C26_SessionStateMachine ==
    [][/\ (~session.logged_in /\ session'.logged_in)
              => /\ CallOf("verify_login")
                 /\ last'.ok
                 /\ session'.account_number = last'.val
                 /\ session'.username = last'.args[1]
       /\ (session.logged_in /\ session'.logged_in) => session' = session
       /\ (nops' = nops + 1 /\ last'.op \in {"deposit", "withdraw", "transfer"})
              => /\ session.logged_in
                 /\ last'.args[1] = session.account_number
       /\ ~session'.logged_in
              => /\ session'.account_number = NoSession.account_number
                 /\ session'.username = NoSession.username]_vars

\* bob is logged out again after a deposit into the account that his login
\* returned
C26_Witness ==
    /\ ~session.logged_in
    /\ last.op = "deposit"
    /\ last.ok
    /\ last.args[1] = 2002
    /\ db.users[2002].username = "bob"

====
